---- MODULE Spec2Model ----
(***************************************************************************)
(* A model of run_combiner.py: one pass of main() over the run directories *)
(* of an inbox, the merge of each run's fragment files, and the .completed *)
(* record that connects one pass to the next.                              *)
(*                                                                         *)
(* A file name is the sequence of its "_"-separated tokens, so that        *)
(*   A_S1_L001_R1_001.gz  is  <<"A", "S1", "L001", "R1", "001.gz">>        *)
(* and the regular expressions of the script become searches for a token.  *)
(* A merged file <experiment>_<label>_<read>.fastq is the token sequence   *)
(* of its name paired with its extension, "fastq" or "fastq.gz".           *)
(***************************************************************************)
EXTENDS Integers, Sequences, FiniteSets, TLC

VARIABLES
    config_,      \* the parsed configuration file (main, line 272)
    clock,        \* what time() returns
    perms,        \* run -> os.access(R_OK) and os.access(W_OK)
    md5exit,      \* run -> exit status of "md5sum -c md5sums.txt" in its input folder
    sheets,       \* run -> SampleSheet.csv: [exists, lines]
    broken,       \* run -> what is wrong with its directory: "no", "in" (the input folder
                  \* does not exist) or "out" (a regular file has the output folder's name)
    origin,       \* run -> the names its input folder held in the initial state
    infolder,     \* run -> directory listing of the input folder: Seq of [name, data, mtime]
    outfolder,    \* run -> [exists, files]: files maps <<merged name, extension>> to content
    dotCompleted, \* Inbox/.completed: [exists, lines]
    rmProcs,      \* the "rm -f" child processes spawned with Popen and not waited for
    pc,           \* where the process is: idle, run, unit, decompress, compress, delete
    exit_,        \* how the last pass ended: none, finished, exception, killed
    completed,    \* main's local list (line 298)
    worklist,     \* main's writable_directories (line 303), as run names
    idx,          \* position of the main loop (line 318) in worklist, 1-based
    ss_info,      \* main's local ss_info (line 345), Unbound before its first assignment
    units,        \* the merge_files calls the loops of lines 349-351 still have to make
    cur,          \* the merge_files call in progress: [samples, todo, name]
    sent,         \* the messages handed to send_mail in this pass
    calls,        \* the merge_files calls made in this pass: Seq of [run, samples, name, remnant]
    verdict,      \* run -> what this pass made of the run
    start,        \* the input and output folders as they were when this pass started
    recorded,     \* run -> number of update_completed calls made for it, over all passes
    killedIn,     \* the runs whose processing a kill interrupted between merge_files' entry and update_completed
    arrivals,     \* the number of files that arrived after the initial state
    kills,        \* the number of passes terminated from outside
    fnIn,         \* argument of the function under test (function specifications)
    fnOut         \* its result

vars == <<config_, clock, perms, md5exit, sheets, broken, origin, infolder, outfolder, dotCompleted,
          rmProcs, pc, exit_, completed, worklist, idx, ss_info, units, cur, sent,
          calls, verdict, start, recorded, killedIn, arrivals, kills, fnIn, fnOut>>

(***************************************************************************)
(* Bounds of the model.                                                    *)
(***************************************************************************)
MaxArrivals == 1
MaxKills == 1
MaxList == 3

(***************************************************************************)
(* File names and their tokens.                                            *)
(***************************************************************************)
None == "None"
NoFile == [exists |-> FALSE, lines |-> <<>>]
Unbound == [bound |-> FALSE, samples |-> <<>>, email |-> "None"]

A_S1_L001_R1 == <<"A", "S1", "L001", "R1", "001.gz">>
A_S1_L002_R1 == <<"A", "S1", "L002", "R1", "001.gz">>
A_S1_L001_R2 == <<"A", "S1", "L001", "R2", "001.gz">>
B_S1_L001_R1 == <<"B", "S1", "L001", "R1", "001.gz">>
A_S2_L001_R1 == <<"A", "S2", "L001", "R1", "001.gz">>
A_S2_L001_R2 == <<"A", "S2", "L001", "R2", "001.gz">>
A_L001_R1 == <<"A", "L001", "R1", "001.gz">>
\* a fragment whose content is not in gzip format: gzip -dc writes nothing and exits with 1
A_S1_L003_R1 == <<"A", "S1", "L003", "R1", "001.gz">>
Damaged == {A_S1_L003_R1}
md5sums_txt == <<"md5sums.txt">>

\* the tokens that match S\d+ and R\d+, and the number after the S
SampleTokens == {"S1", "S2"}
ReadTokens == {"R1", "R2"}
SampleNumber(tok) == IF tok = "S1" THEN 1 ELSE 2

\* re.search("_(X)_", name): the first token between two underscores that matches
Interior(name) == {i \in 1..Len(name) : 1 < i /\ i < Len(name)}
re_search(toks, name) ==
    LET hits == {i \in Interior(name) : name[i] \in toks}
    IN IF hits = {} THEN None
       ELSE name[CHOOSE i \in hits : \A j \in hits : i <= j]

\* re.search("(.+?)_", name): the text before the first underscore
re_search_prefix(name) == IF Len(name) < 2 THEN None ELSE name[1]

\* gzip and gzip -d on file contents: a compressed file wraps its payload
Plain(data) == [raw |-> data]
Gzip(data) == [gz |-> data]
IsGzipped(content) == DOMAIN content = {"gz"}
Gunzip(content) == content.gz

\* the reads a fragment file holds, and the file as it lies in the input folder
Reads(name) == <<name>>
Fragment(name, mtime) == [name |-> name, data |-> Gzip(Reads(name)), mtime |-> mtime]
PlainFile(name, mtime) == [name |-> name, data |-> Plain(<<>>), mtime |-> mtime]
DamagedFile(name, mtime) == [name |-> name, data |-> Plain(<<"noise">>), mtime |-> mtime]

RECURSIVE Concat(_)
Concat(names) ==
    IF names = <<>> THEN <<>> ELSE Reads(Head(names)) \o Concat(Tail(names))

SeqToSet(s) == {s[i] : i \in DOMAIN s}
SelectSeqBy(s, keep) ==
    LET F[i \in 0..Len(s)] ==
            IF i = 0 THEN <<>>
            ELSE IF s[i] \in keep THEN Append(F[i - 1], s[i]) ELSE F[i - 1]
    IN F[Len(s)]

(***************************************************************************)
(* The functions of run_combiner.py that read and compute without writing. *)
(***************************************************************************)
\* the seconds below which check_timestamps counts a file as still copying
Threshold == 7200

\* check: os.path.isfile of a merged file in an output folder
check(folder, name) == folder.exists /\ name \in DOMAIN folder.files

\* glob.glob1(currentDir, "*.gz"): the names of the listing that end in .gz, in its order
GzTails == {"001.gz"}
files_to_be_merged(listing) ==
    LET F[i \in 0..Len(listing)] ==
            IF i = 0 THEN <<>>
            ELSE IF listing[i].name[Len(listing[i].name)] \in GzTails
                 THEN Append(F[i - 1], listing[i].name)
                 ELSE F[i - 1]
    IN F[Len(listing)]

\* the mutant counts the files that are old enough instead of those too young
check_timestamps_Flipped(listing, time_) ==
    Cardinality({i \in DOMAIN listing :
        /\ listing[i].name \in SeqToSet(files_to_be_merged(listing))
        /\ (time_ - listing[i].mtime) >= Threshold})

check_timestamps(listing, time_) ==
    Cardinality({i \in DOMAIN listing :
        /\ listing[i].name \in SeqToSet(files_to_be_merged(listing))
        /\ (time_ - listing[i].mtime) < Threshold})

\* the mutant takes every transfer for verified
check_md5_AlwaysZero(run) == 0

\* check_md5: the exit status of "md5sum -c md5sums.txt" run in the input folder, which
\* is 1 when there is no md5sums.txt to read
check_md5(run) ==
    IF \E i \in DOMAIN infolder[run] : infolder[run][i].name = md5sums_txt
    THEN md5exit[run]
    ELSE 1

\* the mutant finds every directory readable and writable
check_permissions_AlwaysWritable(run) == <<run, TRUE>>

\* check_permissions
check_permissions(run) == <<run, perms[run]>>

\* the keys of group_samples' dict samples: the sample token of every file
SampleKeys(files) == {re_search(SampleTokens, files[i]) : i \in DOMAIN files}

\* the orders in which "for key in samples" may visit the keys of the dict
KeyOrders(files) ==
    LET keys == SampleKeys(files) \ {None}
    IN {o \in [1..Cardinality(keys) -> keys] : \A i, j \in DOMAIN o : i # j => o[i] # o[j]}

HasR1(name) == re_search({"R1"}, name) # None

\* the mutant groups by read direction alone: every key gets every file
group_samples_NoKey(currentDir, files, order) ==
    IF None \in SampleKeys(files)
    THEN [exc |-> "AttributeError", key |-> currentDir, read1 |-> <<>>, read2 |-> <<>>]
    ELSE [exc |-> None, key |-> currentDir,
          read1 |-> [k \in DOMAIN order |-> SelectSeqBy(files, {f \in SeqToSet(files) : HasR1(f)})],
          read2 |-> [k \in DOMAIN order |-> SelectSeqBy(files, {f \in SeqToSet(files) : ~HasR1(f)})]]

\* the mutant makes a list for each read direction whether there is a sample key or not
group_samples_KeylessUnit(currentDir, files, order) ==
    [exc |-> None, key |-> currentDir,
     read1 |-> <<SelectSeqBy(files, {f \in SeqToSet(files) : HasR1(f)})>>,
     read2 |-> <<SelectSeqBy(files, {f \in SeqToSet(files) : ~HasR1(f)})>>]

\* group_samples: `order` is the order in which the dict yields its keys
group_samples(currentDir, files, order) ==
    IF None \in SampleKeys(files)
    THEN [exc |-> "AttributeError", key |-> currentDir, read1 |-> <<>>, read2 |-> <<>>]
    ELSE LET OfKey(k) == {f \in SeqToSet(files) : re_search(SampleTokens, f) = k}
         IN [exc |-> None, key |-> currentDir,
             read1 |-> [k \in DOMAIN order |->
                          SelectSeqBy(files, {f \in OfKey(order[k]) : HasR1(f)})],
             read2 |-> [k \in DOMAIN order |->
                          SelectSeqBy(files, {f \in OfKey(order[k]) : ~HasR1(f)})]]

\* the lists main hands to merge_files, in the order of the loops of lines 349-351
UnitsOf(groups) == groups.read1 \o groups.read2

\* ss_info[i] of Python for i >= -len
PyIndexOk(list, i) == -Len(list) <= i /\ i < Len(list)
PyIndex(list, i) == IF i >= 0 THEN list[i + 1] ELSE list[Len(list) + i + 1]

\* merge_files, lines 162-166: the merged file's name without its extension
merged_name(samples, labels) ==
    IF samples = <<>> THEN [exc |-> "IndexError", name |-> <<>>]
    ELSE LET exp_name == re_search_prefix(samples[1])
             exp_sample == re_search(SampleTokens, samples[1])
             exp_read == re_search(ReadTokens, samples[1])
         IN IF exp_name = None \/ exp_sample = None
            THEN [exc |-> "AttributeError", name |-> <<>>]
            ELSE IF ~PyIndexOk(labels, SampleNumber(exp_sample) - 1)
            THEN [exc |-> "IndexError", name |-> <<>>]
            ELSE IF exp_read = None
            THEN [exc |-> "AttributeError", name |-> <<>>]
            ELSE [exc |-> None,
                  name |-> <<exp_name>> \o PyIndex(labels, SampleNumber(exp_sample) - 1)
                           \o <<exp_read>>]

\* parse_sample_sheet: a line of the sheet is [investigator, dat, one, fields], where
\* investigator is the address after "Investigator Name," or None, dat says that the
\* line holds one of the characters D, a, t (the class "[Data]"), one that it starts
\* with "1", and fields are its comma-separated fields
parse_sample_sheet(file, admin_email, use_ss_email) ==
    IF ~file.exists THEN [exc |-> None, samples |-> <<>>, email |-> admin_email]
    ELSE LET sheet == file.lines
             Found[i \in 0..Len(sheet)] ==
                 IF i = 0 THEN FALSE ELSE Found[i - 1] \/ sheet[i].dat
             Short == {i \in DOMAIN sheet :
                          Found[i] /\ sheet[i].one /\ Len(sheet[i].fields) < 3}
             Rows[i \in 0..Len(sheet)] ==
                 IF i = 0 THEN <<>>
                 ELSE IF Found[i] /\ sheet[i].one /\ Len(sheet[i].fields) >= 3
                      THEN Append(Rows[i - 1], <<sheet[i].fields[2], sheet[i].fields[3]>>)
                      ELSE Rows[i - 1]
             email_ == IF use_ss_email /\ Len(sheet) > 0
                       THEN sheet[Len(sheet)].investigator
                       ELSE admin_email
         IN IF Short # {} THEN [exc |-> "IndexError", samples |-> <<>>, email |-> None]
            ELSE [exc |-> None, samples |-> Rows[Len(sheet)], email |-> email_]

(***************************************************************************)
(* The inbox and the initial states.                                       *)
(***************************************************************************)
\* os.listdir(Inbox), in its order
Runs == <<"r1", "r2">>
RunSet == SeqToSet(Runs)

AdminEmail == "admin@lab"

SheetStd == [exists |-> TRUE, lines |-> <<
    [investigator |-> "pi@lab", dat |-> TRUE, one |-> FALSE,
     fields |-> <<"Investigator Name", "pi@lab">>],
    [investigator |-> None, dat |-> TRUE, one |-> FALSE, fields |-> <<"[Data]">>],
    [investigator |-> None, dat |-> TRUE, one |-> FALSE,
     fields |-> <<"Lane", "Sample_ID", "Sample_Name">>],
    [investigator |-> None, dat |-> FALSE, one |-> TRUE, fields |-> <<"1", "id1", "n1">>],
    [investigator |-> None, dat |-> FALSE, one |-> TRUE, fields |-> <<"1", "id2", "n2">>] >>]

\* the listings the first run directory starts with: the names in os.listdir order
Listings1 == {
    <<>>,
    <<md5sums_txt>>,
    <<md5sums_txt, A_S1_L002_R1, A_S1_L001_R2, A_S1_L001_R1>>,
    <<md5sums_txt, A_S1_L001_R1, B_S1_L001_R1, A_S1_L001_R2>>,
    <<md5sums_txt, A_S1_L001_R1, A_S1_L001_R2, A_L001_R1>>,
    <<md5sums_txt, A_S1_L001_R1, A_S1_L003_R1, A_S1_L001_R2>>,
    <<A_S1_L001_R1>> }
\* what may be wrong with the first run directory, given its listing
Breaks1(names) ==
    IF names = <<>> THEN {"no", "in"}
    ELSE IF A_S1_L002_R1 \in SeqToSet(names) THEN {"no", "out"}
    ELSE {"no"}
Listings2 == { <<md5sums_txt, A_S1_L001_R1, A_S1_L001_R2>> }
ArrivalNames == {A_S1_L001_R1}

\* a transfer that is still going on left its last file with a fresh mtime
Entries(names, now, transferred) ==
    [i \in DOMAIN names |->
        IF names[i] = md5sums_txt THEN PlainFile(names[i], 0)
        ELSE IF names[i] \in Damaged THEN DamagedFile(names[i], 0)
        ELSE Fragment(names[i], IF ~transferred /\ i = Len(names) THEN now - 600 ELSE 0)]

\* the configurations: every pair of values of two keys occurs in one of them
Config(md5, keep, ss) ==
    [admin |-> AdminEmail, use_ss_email |-> ss, keep_original_files |-> keep, use_md5 |-> md5]
Configs == {Config(TRUE, TRUE, FALSE), Config(TRUE, FALSE, TRUE),
            Config(FALSE, TRUE, TRUE), Config(FALSE, FALSE, FALSE)}

NoCur == [samples |-> <<>>, todo |-> <<>>, name |-> <<>>]
EmptyFolder == [exists |-> FALSE, files |-> <<>>]

InitPass ==
    /\ rmProcs = {}
    /\ pc = "idle"
    /\ exit_ = "none"
    /\ kills = 0
    /\ completed = <<>>
    /\ worklist = <<>>
    /\ idx = 1
    /\ ss_info = Unbound
    /\ units = <<>>
    /\ cur = NoCur
    /\ sent = <<>>
    /\ calls = <<>>
    /\ verdict = [r \in RunSet |-> "none"]
    /\ start = [in |-> infolder, out |-> outfolder]
    /\ recorded = [r \in RunSet |-> 0]
    /\ killedIn = {}
    /\ arrivals = 0

Init ==
    /\ config_ \in Configs
    /\ clock = 2 * Threshold
    /\ perms \in [RunSet -> BOOLEAN]
    /\ \E transferred \in [RunSet -> BOOLEAN] :
          /\ md5exit = [r \in RunSet |-> IF transferred[r] THEN 0 ELSE 1]
          /\ \E l1 \in Listings1, l2 \in Listings2 :
                /\ origin = [r \in RunSet |-> IF r = "r1" THEN l1 ELSE l2]
                /\ infolder = [r \in RunSet |-> Entries(origin[r], clock, transferred[r])]
                /\ \E b1 \in Breaks1(l1) :
                      broken = [r \in RunSet |-> IF r = "r1" THEN b1 ELSE "no"]
    /\ \E s1 \in {NoFile, SheetStd} :
          sheets = [r \in RunSet |-> IF r = "r1" THEN s1 ELSE SheetStd]
    /\ outfolder = [r \in RunSet |-> EmptyFolder]
    /\ dotCompleted = [exists |-> FALSE, lines |-> <<>>]
    /\ InitPass
    /\ fnIn = <<>>
    /\ fnOut = <<>>

(***************************************************************************)
(* The pass: main(), and merge_files in the steps a kill can separate.     *)
(***************************************************************************)
Names(listing) == [i \in DOMAIN listing |-> listing[i].name]
Present(listing, name) == \E i \in DOMAIN listing : listing[i].name = name
EntryOf(listing, name) == listing[CHOOSE i \in DOMAIN listing : listing[i].name = name]
Without(listing, name) == SelectSeq(listing, LAMBDA e : e.name # name)
Drop(files, key) == [k \in DOMAIN files \ {key} |-> files[k]]
Put(files, key, content) == [k \in DOMAIN files \cup {key} |->
                               IF k = key THEN content ELSE files[k]]

\* send_mail
Mail(subject, address, run, file) ==
    [subject |-> subject, to |-> address, run |-> run, file |-> file]

\* the mutant reads no line
get_completed_Nothing(file) == <<>>

\* get_completed: the stripped lines of .completed
get_completed(file) == file.lines

\* the mutant opens .completed with "w"
update_completed_Rewriting(file, run) == [exists |-> TRUE, lines |-> <<run>>]

\* update_completed: open in append mode, write one line, close
update_completed(file, run) == [exists |-> TRUE, lines |-> Append(file.lines, run)]

\* list_dir_no_hidden
list_dir_no_hidden == Runs

ThisRun == worklist[idx]
PassVars == <<completed, worklist, idx, ss_info, units, cur, sent, calls, verdict, start>>
EnvVars == <<config_, clock, perms, md5exit, sheets, broken, origin>>
FnVars == <<fnIn, fnOut, kills>>

\* an exception that no handler of main catches ends the process
Raise ==
    /\ pc' = "idle"
    /\ exit_' = "exception"

\* main, lines 292-317: the completed list, the permission check, the notifications
StartPass ==
    /\ pc = "idle"
    /\ rmProcs = {}
    /\ LET file == IF dotCompleted.exists THEN dotCompleted
                   ELSE [exists |-> TRUE, lines |-> <<>>]
           done == get_completed(file)
           directories == list_dir_no_hidden
           permissions == SelectSeq([i \in DOMAIN directories |->
                                        check_permissions(directories[i])],
                                    LAMBDA d : d[1] \notin SeqToSet(done))
           writable_directories == SelectSeq(permissions, LAMBDA d : d[2])
           unwritable_directories == SelectSeq(permissions, LAMBDA d : ~d[2])
       IN /\ dotCompleted' = file
          /\ completed' = done
          /\ worklist' = [i \in DOMAIN writable_directories |-> writable_directories[i][1]]
          /\ sent' = [i \in DOMAIN unwritable_directories |->
                        Mail("unwritable", config_.admin, unwritable_directories[i][1], <<>>)]
          /\ verdict' = [r \in RunSet |->
                           IF r \in {d[1] : d \in SeqToSet(writable_directories)}
                           THEN "writable"
                           ELSE IF r \in {d[1] : d \in SeqToSet(unwritable_directories)}
                           THEN "unwritable"
                           ELSE "completed"]
    /\ idx' = 1
    /\ ss_info' = Unbound
    /\ units' = <<>>
    /\ cur' = NoCur
    /\ calls' = <<>>
    /\ start' = [in |-> infolder, out |-> outfolder]
    /\ pc' = "run"
    /\ exit_' = "none"
    /\ UNCHANGED <<EnvVars, infolder, outfolder, rmProcs, recorded, killedIn,
                   arrivals, FnVars>>

\* main, lines 384-387 and the step of the loop: the message that follows the try block
AfterTry(info, mails, run) ==
    IF ~info.bound
    THEN Raise /\ sent' = mails /\ idx' = idx
    ELSE /\ sent' = Append(mails, Mail("finished", info.email, run, <<>>))
         /\ idx' = idx + 1
         /\ pc' = "run"
         /\ exit_' = exit_

\* main, lines 319-348 and 360-367: verify the transfer, then read the sheet and group
VerifyRun ==
    /\ pc = "run"
    /\ idx <= Len(worklist)
    /\ LET run == ThisRun
           md5status == IF config_.use_md5 THEN check_md5(run) ELSE 1
           timestamp == IF config_.use_md5 THEN 1
                        ELSE check_timestamps(infolder[run], clock)
           files_for_merging == files_to_be_merged(infolder[run])
           info == parse_sample_sheet(sheets[run], config_.admin, config_.use_ss_email)
       IN IF config_.use_md5 /\ broken[run] = "in"
          THEN \* Popen raises OSError for a cwd that does not exist; line 372 catches it
               /\ verdict' = [verdict EXCEPT ![run] = "failed"]
               /\ AfterTry(ss_info, sent, run)
               /\ UNCHANGED <<ss_info, units>>
          ELSE IF md5status = 0 \/ timestamp = 0
          THEN /\ verdict' = [verdict EXCEPT ![run] = "complete"]
               /\ IF info.exc # None
                  THEN Raise /\ UNCHANGED <<ss_info, units, sent, idx>>
                  ELSE /\ ss_info' = [bound |-> TRUE, samples |-> info.samples, email |-> info.email]
                       /\ \E order \in KeyOrders(files_for_merging) :
                             LET sample_groups == group_samples(run, files_for_merging, order)
                             IN IF sample_groups.exc # None
                                THEN Raise /\ UNCHANGED <<units, sent, idx>>
                                ELSE /\ units' = UnitsOf(sample_groups)
                                     /\ pc' = "unit"
                                     /\ UNCHANGED <<exit_, sent, idx>>
          ELSE /\ verdict' = [verdict EXCEPT ![run] = "incomplete"]
               /\ AfterTry(ss_info, Append(sent, Mail("incomplete", config_.admin, run, <<>>)),
                           run)
               /\ UNCHANGED <<ss_info, units>>
    /\ UNCHANGED <<EnvVars, infolder, outfolder, dotCompleted, rmProcs, completed, worklist,
                   cur, calls, start, recorded, killedIn, arrivals, FnVars>>

\* merge_files, lines 158-197: the output folder, the name, the remnant of an earlier attempt
MergeBegin ==
    /\ pc = "unit"
    /\ units # <<>>
    /\ LET run == ThisRun
           samples == Head(units)
           folder == [outfolder[run] EXCEPT !.exists = TRUE]
           named == merged_name(samples, ss_info.samples)
           fastq == <<named.name, "fastq">>
           gz == <<named.name, "fastq.gz">>
           fastq_exists == check(folder, fastq)
           gz_exists == check(folder, gz)
           call(name, outcome) == [run |-> run, samples |-> samples, name |-> name,
                                   outcome |-> outcome]
       IN IF ~outfolder[run].exists /\ broken[run] = "out"
          THEN \* os.mkdir raises OSError, which ends the loops of lines 349-351 and the
               \* try block; line 372 catches it
               /\ calls' = Append(calls, call(<<>>, "failed"))
               /\ verdict' = [verdict EXCEPT ![run] = "failed"]
               /\ units' = <<>>
               /\ AfterTry(ss_info, sent, run)
               /\ UNCHANGED <<outfolder, rmProcs, cur>>
          ELSE /\ outfolder' = [outfolder EXCEPT ![run] = folder]
               /\ UNCHANGED <<verdict, idx>>
               /\ IF named.exc # None
                  THEN /\ Raise
                       /\ calls' = Append(calls, call(named.name, "raised"))
                       /\ UNCHANGED <<rmProcs, sent, units, cur>>
                  ELSE IF fastq_exists \/ gz_exists
                  THEN LET ext == IF fastq_exists THEN "fastq" ELSE "fastq.gz"
                       IN /\ sent' = Append(sent, Mail("remnant", config_.admin, run,
                                                       <<named.name, ext>>))
                          /\ rmProcs' = rmProcs \cup {<<run, "out", <<named.name, ext>>>>}
                          /\ calls' = Append(calls, call(named.name, "remnant"))
                          /\ units' = Tail(units)
                          /\ UNCHANGED <<pc, exit_, cur>>
                  ELSE /\ cur' = [samples |-> samples, todo |-> samples, name |-> named.name]
                       /\ calls' = Append(calls, call(named.name, "merging"))
                       /\ pc' = "decompress"
                       /\ UNCHANGED <<exit_, rmProcs, sent, units>>
    /\ UNCHANGED <<EnvVars, infolder, dotCompleted, completed, worklist, ss_info,
                   start, recorded, killedIn, arrivals, FnVars>>

SetOutcome(cs, outcome) == [cs EXCEPT ![Len(cs)].outcome = outcome]

\* what "gzip -dc sample" writes to the output file opened with "a+"
Decompressed(listing, sample) ==
    IF Present(listing, sample) /\ IsGzipped(EntryOf(listing, sample).data)
    THEN Gunzip(EntryOf(listing, sample).data)
    ELSE <<>>

\* the mutant opens the output file with "w": every fragment overwrites the last
AppendTo_Truncating(files, key, data) == Put(files, key, Plain(data))

\* open(..., "a+") and the write of the child process
AppendTo(files, key, data) ==
    Put(files, key, Plain((IF key \in DOMAIN files THEN files[key].raw ELSE <<>>) \o data))

\* merge_files, lines 198-205: one turn of the loop over the unit's fragments
DecompressOne ==
    /\ pc = "decompress"
    /\ LET run == ThisRun
           sample == Head(cur.todo)
           fastq == <<cur.name, "fastq">>
       IN /\ outfolder' = [outfolder EXCEPT ![run].files =
                              AppendTo(@, fastq, Decompressed(infolder[run], sample))]
          /\ cur' = [cur EXCEPT !.todo = Tail(@)]
          /\ pc' = IF Tail(cur.todo) = <<>> THEN "compress" ELSE "decompress"
    /\ UNCHANGED <<EnvVars, infolder, dotCompleted, rmProcs, exit_, completed, worklist, idx,
                   ss_info, units, sent, calls, verdict, start, recorded, killedIn,
                   arrivals, FnVars>>

\* "gzip merged_name": writes merged_name.gz and removes merged_name, unless the .gz is there
gzip_file(files, name) ==
    LET fastq == <<name, "fastq">>
        gz == <<name, "fastq.gz">>
    IN IF fastq \notin DOMAIN files \/ gz \in DOMAIN files THEN files
       ELSE Drop(Put(files, gz, Gzip(files[fastq].raw)), fastq)

\* merge_files, lines 206-211
Compress ==
    /\ pc = "compress"
    /\ outfolder' = [outfolder EXCEPT ![ThisRun].files = gzip_file(@, cur.name)]
    /\ pc' = "delete"
    /\ UNCHANGED <<EnvVars, infolder, dotCompleted, rmProcs, exit_, completed, worklist, idx,
                   ss_info, units, cur, sent, calls, verdict, start, recorded,
                   killedIn, arrivals, FnVars>>

\* the mutant deletes whatever keep_original_files says
delete_samples_Always(run, samples, keep_samples) ==
    {<<run, "in", samples[i]>> : i \in DOMAIN samples}

\* delete_samples: the rm -f processes it spawns, none of which it waits for
delete_samples(run, samples, keep_samples) ==
    IF ~keep_samples THEN {<<run, "in", samples[i]>> : i \in DOMAIN samples} ELSE {}

\* merge_files, line 212, and its return
DeleteSamples ==
    /\ pc = "delete"
    /\ rmProcs' = rmProcs \cup
                    delete_samples(ThisRun, cur.samples, config_.keep_original_files)
    /\ calls' = SetOutcome(calls, "merged")
    /\ units' = Tail(units)
    /\ cur' = NoCur
    /\ pc' = "unit"
    /\ UNCHANGED <<EnvVars, infolder, outfolder, dotCompleted, exit_, completed, worklist,
                   idx, ss_info, sent, verdict, start, recorded, killedIn, arrivals, FnVars>>

\* main, lines 358-359 and 384-387: every merge_files call of the run has returned
RunDone ==
    /\ pc = "unit"
    /\ units = <<>>
    /\ dotCompleted' = update_completed(dotCompleted, ThisRun)
    /\ recorded' = [recorded EXCEPT ![ThisRun] = @ + 1]
    /\ verdict' = [verdict EXCEPT ![ThisRun] = "recorded"]
    /\ AfterTry(ss_info, sent, ThisRun)
    /\ UNCHANGED <<EnvVars, infolder, outfolder, rmProcs, completed, worklist, ss_info,
                   units, cur, calls, start, killedIn, arrivals, FnVars>>

\* main, line 389: the loop is over
FinishPass ==
    /\ pc = "run"
    /\ idx > Len(worklist)
    /\ pc' = "idle"
    /\ exit_' = "finished"
    /\ UNCHANGED <<EnvVars, infolder, outfolder, dotCompleted, rmProcs, PassVars, recorded,
                   killedIn, arrivals, FnVars>>

\* an rm -f child process runs and exits
RmExit ==
    \E p \in rmProcs :
        /\ rmProcs' = rmProcs \ {p}
        /\ IF p[2] = "in"
           THEN /\ infolder' = [infolder EXCEPT ![p[1]] = Without(@, p[3])]
                /\ UNCHANGED outfolder
           ELSE /\ outfolder' = [outfolder EXCEPT ![p[1]].files = Drop(@, p[3])]
                /\ UNCHANGED infolder
        /\ UNCHANGED <<EnvVars, dotCompleted, pc, exit_, PassVars, recorded, killedIn,
                       arrivals, FnVars>>

\* what a kill leaves of the child process that was writing: nothing more, or a torn piece
Torn == <<"torn">>

\* the process is terminated from outside, wherever it is
Kill ==
    /\ pc # "idle"
    /\ kills < MaxKills
    /\ kills' = kills + 1
    /\ \E torn \in BOOLEAN :
          outfolder' =
            IF torn /\ pc = "decompress"
            THEN [outfolder EXCEPT ![ThisRun].files =
                      AppendTo(@, <<cur.name, "fastq">>, <<Torn>>)]
            ELSE IF torn /\ pc = "compress"
            THEN [outfolder EXCEPT ![ThisRun].files =
                      Put(@, <<cur.name, "fastq.gz">>, Gzip(<<Torn>>))]
            ELSE outfolder
    /\ killedIn' = IF pc \in {"unit", "decompress", "compress", "delete"}
                   THEN killedIn \cup {ThisRun} ELSE killedIn
    /\ pc' = "idle"
    /\ exit_' = "killed"
    /\ UNCHANGED <<EnvVars, infolder, dotCompleted, rmProcs, PassVars, recorded,
                   arrivals, fnIn, fnOut>>

\* the upstream system copies one more file into a run's input folder between two passes;
\* what the model remembers of the last pass ends here
Arrive ==
    /\ pc = "idle"
    /\ rmProcs = {}
    /\ arrivals < MaxArrivals
    /\ \E run \in RunSet, name \in ArrivalNames, mtime \in {0, clock} :
          /\ broken[run] # "in"
          /\ ~Present(infolder[run], name)
          /\ infolder' = [infolder EXCEPT ![run] = Append(@, Fragment(name, mtime))]
    /\ arrivals' = arrivals + 1
    /\ sent' = <<>>
    /\ calls' = <<>>
    /\ verdict' = [r \in RunSet |-> "none"]
    /\ start' = [in |-> infolder', out |-> outfolder]
    /\ exit_' = "none"
    /\ UNCHANGED <<EnvVars, outfolder, dotCompleted, rmProcs, pc, completed, worklist, idx,
                   ss_info, units, cur, recorded, killedIn, FnVars>>

Next ==
    \/ StartPass
    \/ VerifyRun
    \/ MergeBegin
    \/ DecompressOne
    \/ Compress
    \/ DeleteSamples
    \/ RunDone
    \/ FinishPass
    \/ RmExit
    \/ Kill
    \/ Arrive

Spec == Init /\ [][Next]_vars

(***************************************************************************)
(* The claims about the pass.                                              *)
(***************************************************************************)
CallsFor(run) == {i \in DOMAIN calls : calls[i].run = run}
LastCall == calls[Len(calls)]
MailsAbout(run) == {i \in DOMAIN sent : sent[i].run = run}

\* C1: a run that a pass recorded with update_completed is, in every later pass,
\* filtered out before the permission check (it is neither in the work list nor
\* reported unwritable) and merge_files is never called for it, whatever its
\* folders hold by then; it is recorded once only.
C1_Idempotent ==
    \A r \in RunSet :
        (recorded[r] > 0 /\ verdict[r] \notin {"recorded", "none"}) =>
            /\ verdict[r] = "completed"
            /\ r \notin SeqToSet(worklist)
            /\ CallsFor(r) = {}
            /\ MailsAbout(r) = {}
            /\ recorded[r] = 1

\* a later pass ran to its end over a recorded run whose fragments were deleted
\* and into whose input folder a new fragment has arrived since
C1_Witness ==
    /\ recorded["r1"] = 1
    /\ verdict["r1"] = "completed"
    /\ exit_ = "finished"
    /\ ~config_.keep_original_files
    /\ origin["r1"] # <<>>
    /\ arrivals > 0
    /\ files_to_be_merged(infolder["r1"]) # <<>>

\* C2: when merge_files finds the unit's .fastq or .fastq.gz in the output folder, it
\* deletes the remnant and merges the unit afresh within the same call: when the call
\* returns, the unit's .fastq.gz holds the concatenation of the unit's fragments.
C2_RemnantRemerged ==
    (calls # <<>> /\ LastCall.outcome = "remnant") =>
        LET files == outfolder[LastCall.run].files
            gz == <<LastCall.name, "fastq.gz">>
        IN /\ gz \in DOMAIN files
           /\ files[gz] = Gzip(Concat(LastCall.samples))

\* the .gz files the run's input folder held in the initial state, and their units
OriginFiles(run) == SelectSeq(origin[run], LAMBDA n : n[Len(n)] \in GzTails)
OriginUnits(run) ==
    LET files == OriginFiles(run)
        groups == group_samples(run, files, CHOOSE o \in KeyOrders(files) : TRUE)
    IN {u \in SeqToSet(UnitsOf(groups)) : u # <<>>}
OutputsOf(run, unit) ==
    {key \in DOMAIN outfolder[run].files :
        /\ key[2] = "fastq.gz"
        /\ outfolder[run].files[key] = Gzip(Concat(unit))}

\* C3: when a pass was terminated while it merged a run and a later pass records the
\* run as completed, every merge unit of the run has exactly one compressed output
\* that holds the concatenation of its fragments.
C3_ResumeCompletes ==
    \A r \in RunSet :
        (r \in killedIn /\ recorded[r] > 0 /\ arrivals = 0) =>
            \A u \in OriginUnits(r) : Cardinality(OutputsOf(r, u)) = 1

\* the transfer into the run's input folder is not complete, by the configured strategy
TransferIncomplete(run) ==
    IF config_.use_md5 THEN md5exit[run] # 0 /\ broken[run] # "in"
    ELSE \E i \in DOMAIN start.in[run] :
            /\ start.in[run][i].name[Len(start.in[run][i].name)] \in GzTails
            /\ clock - start.in[run][i].mtime < 7200
Examined(run) == verdict[run] \in {"complete", "incomplete", "recorded"}

C4_Gate ==
    \A r \in RunSet :
        (TransferIncomplete(r) /\ Examined(r)) =>
            /\ verdict[r] = "incomplete"
            /\ CallsFor(r) = {}
            /\ r \notin SeqToSet(dotCompleted.lines)
            /\ infolder[r] = start.in[r]
            /\ outfolder[r] = start.out[r]
            /\ \E i \in DOMAIN sent : sent[i] = Mail("incomplete", config_.admin, r, <<>>)
C4_Again ==
    \A r \in RunSet :
        (verdict[r] = "incomplete" /\ pc = "idle" /\ pc' = "run") =>
            verdict'[r] \in {"writable", "unwritable"}

\* C4: for a run whose transfer is incomplete (checksum tool exit status non-zero with
\* use_md5, else a fragment younger than the threshold), the pass that examines it
\* calls merge_files zero times for it, does not append it to .completed, leaves its
\* input and output folders as they were, and sends the admin a notification; the
\* next pass does not filter the run out as completed.
C4_TransferGate == [] C4_Gate /\ [][C4_Again]_vars

\* a pass went on after it found the transfer of its second run incomplete
C4_Witness ==
    /\ verdict["r1"] = "recorded"
    /\ verdict["r2"] = "incomplete"
    /\ TransferIncomplete("r2")
    /\ exit_ = "finished"

(***************************************************************************)
(* The functions on their own: a list of file names is grouped and named,  *)
(* a directory listing is checked for files that are still young.          *)
(***************************************************************************)
FrozenPass ==
    /\ config_ = Config(FALSE, TRUE, FALSE)
    /\ perms = [r \in RunSet |-> TRUE]
    /\ md5exit = [r \in RunSet |-> 0]
    /\ sheets = [r \in RunSet |-> SheetStd]
    /\ broken = [r \in RunSet |-> "no"]
    /\ origin = [r \in RunSet |-> <<>>]
    /\ infolder = [r \in RunSet |-> <<>>]
    /\ outfolder = [r \in RunSet |-> EmptyFolder]
    /\ dotCompleted = [exists |-> FALSE, lines |-> <<>>]
    /\ InitPass

FragmentNames == {A_S1_L001_R1, A_S1_L002_R1, A_S1_L001_R2, B_S1_L001_R1,
                  A_S2_L001_R1, A_S2_L001_R2, A_L001_R1}

\* the lists of at most MaxList different names
Lists(names) ==
    UNION {{l \in [1..n -> names] : \A i, j \in 1..n : i # j => l[i] # l[j]} : n \in 0..MaxList}

InitGroup ==
    /\ FrozenPass
    /\ clock = 2 * Threshold
    /\ fnIn \in Lists(FragmentNames)
    /\ fnOut = [stage |-> "input"]

\* group_samples(currentDir, files)
ApplyGroup ==
    /\ fnOut.stage = "input"
    /\ \E order \in KeyOrders(fnIn) :
          fnOut' = [stage |-> "grouped", groups |-> group_samples("r1", fnIn, order)]
    /\ UNCHANGED <<EnvVars, infolder, outfolder, dotCompleted, rmProcs, pc, exit_, PassVars,
                   recorded, killedIn, arrivals, kills, fnIn>>

\* merge_files, lines 162-166, for every list that main would hand to it
ApplyName ==
    /\ fnOut.stage = "grouped"
    /\ fnOut.groups.exc = None
    /\ LET labels == parse_sample_sheet(SheetStd, AdminEmail, FALSE).samples
           lists == UnitsOf(fnOut.groups)
       IN fnOut' = [stage |-> "named", groups |-> fnOut.groups,
                    names |-> [k \in DOMAIN lists |-> merged_name(lists[k], labels)]]
    /\ UNCHANGED <<EnvVars, infolder, outfolder, dotCompleted, rmProcs, pc, exit_, PassVars,
                   recorded, killedIn, arrivals, kills, fnIn>>

NextGroup == ApplyGroup \/ ApplyName

SpecGroup == InitGroup /\ [][NextGroup]_vars

\* the mtimes around the threshold, for the two times at which the check may run
Mtimes == {2 * Threshold - 600, Threshold + 1, Threshold, Threshold - 1}
AgeNames == {A_S1_L001_R1, A_S1_L001_R2, md5sums_txt}
Listings ==
    UNION {{[i \in DOMAIN l |-> IF l[i] = md5sums_txt THEN PlainFile(l[i], m[i])
                                 ELSE Fragment(l[i], m[i])] :
               m \in [DOMAIN l -> Mtimes]} : l \in Lists(AgeNames)}

InitAge ==
    /\ FrozenPass
    /\ clock \in {2 * Threshold, 2 * Threshold + 1}
    /\ fnIn \in Listings
    /\ fnOut = [stage |-> "input"]

\* check_timestamps(current_dir, time())
ApplyTimestamps ==
    /\ fnOut.stage = "input"
    /\ fnOut' = [stage |-> "checked", fails |-> check_timestamps(fnIn, clock)]
    /\ UNCHANGED <<EnvVars, infolder, outfolder, dotCompleted, rmProcs, pc, exit_, PassVars,
                   recorded, killedIn, arrivals, kills, fnIn>>

NextAge == ApplyTimestamps

SpecAge == InitAge /\ [][NextAge]_vars

(***************************************************************************)
(* The claims about the functions.                                         *)
(***************************************************************************)
IsFragmentEntry(entry) == entry.name[Len(entry.name)] \in GzTails

\* C5: check_timestamps returns 0 (Complete) if and only if no *.gz fragment of the
\* folder has now - mtime below 7200 s; one fragment modified 10 minutes ago makes
\* the run Incomplete.
C5_AgeStrategy ==
    fnOut.stage = "checked" =>
        /\ (fnOut.fails = 0) <=>
              ~ \E i \in DOMAIN fnIn :
                    IsFragmentEntry(fnIn[i]) /\ clock - fnIn[i].mtime < 7200
        /\ (\E i \in DOMAIN fnIn : IsFragmentEntry(fnIn[i]) /\ clock - fnIn[i].mtime = 600)
              => fnOut.fails # 0

\* a folder with one fragment exactly 7200 s old and a younger md5sums.txt is Complete
C5_Witness ==
    /\ fnOut.stage = "checked"
    /\ fnOut.fails = 0
    /\ \E i \in DOMAIN fnIn : IsFragmentEntry(fnIn[i]) /\ clock - fnIn[i].mtime = 7200
    /\ \E i \in DOMAIN fnIn : ~IsFragmentEntry(fnIn[i]) /\ clock - fnIn[i].mtime < 7200

SampleKeyOf(name) == re_search(SampleTokens, name)
PositionIn(list, x) == CHOOSE i \in DOMAIN list : list[i] = x
ExampleList == <<A_S1_L001_R1, A_S1_L002_R1, A_S1_L001_R2>>

\* C6: for a list of names that all hold a _S<digits>_ segment, group_samples puts
\* every name in exactly one unit, two names share a unit iff they have the same
\* sample key and the same read direction (_R1_ present or not), the order inside a
\* unit is the order of the list, and the example list gives the two units
\* (S1, R1) with two files and (S1, R2) with one.
C6_Partition ==
    (fnOut.stage = "grouped" /\ \A i \in DOMAIN fnIn : SampleKeyOf(fnIn[i]) # None) =>
        LET lists == UnitsOf(fnOut.groups)
            Holds(k, f) == \E a \in DOMAIN lists[k] : lists[k][a] = f
        IN /\ fnOut.groups.exc = None
           /\ \A i \in DOMAIN fnIn :
                 /\ Cardinality({k \in DOMAIN lists : Holds(k, fnIn[i])}) = 1
                 /\ \A k \in DOMAIN lists :
                       Cardinality({a \in DOMAIN lists[k] : lists[k][a] = fnIn[i]}) <= 1
           /\ \A k \in DOMAIN lists : \A a \in DOMAIN lists[k] :
                 \E i \in DOMAIN fnIn : fnIn[i] = lists[k][a]
           /\ \A i, j \in DOMAIN fnIn :
                 (\E k \in DOMAIN lists : Holds(k, fnIn[i]) /\ Holds(k, fnIn[j]))
                    <=> (/\ SampleKeyOf(fnIn[i]) = SampleKeyOf(fnIn[j])
                         /\ HasR1(fnIn[i]) = HasR1(fnIn[j]))
           /\ \A k \in DOMAIN lists : \A a, b \in DOMAIN lists[k] :
                 a < b => PositionIn(fnIn, lists[k][a]) < PositionIn(fnIn, lists[k][b])
           /\ fnIn = ExampleList =>
                 lists = <<<<A_S1_L001_R1, A_S1_L002_R1>>, <<A_S1_L001_R2>>>>

\* a list of two samples has been grouped; the unit of S1 keeps the order of the list
C6_Witness ==
    /\ fnOut.stage = "grouped"
    /\ fnIn = <<A_S1_L002_R1, A_S2_L001_R1, A_S1_L001_R1>>
    /\ \E k \in DOMAIN UnitsOf(fnOut.groups) :
          UnitsOf(fnOut.groups)[k] = <<A_S1_L002_R1, A_S1_L001_R1>>

(***************************************************************************)
(* More claims about the pass.                                             *)
(***************************************************************************)
Malformed(run) ==
    \E i \in DOMAIN start.in[run] :
        IsFragmentEntry(start.in[run][i]) /\ SampleKeyOf(start.in[run][i].name) = None

\* C7: a file name without a _S<digits>_ segment in a run's fragment list is an error
\* that is handled at the run boundary: the run is skipped and the pass goes on to
\* the remaining run directories instead of terminating.
C7_MalformedHandled ==
    \A r \in RunSet :
        (verdict[r] = "complete" /\ Malformed(r) /\ CallsFor(r) = {}) =>
            ~(pc = "idle" /\ exit_ = "exception")

\* C8: for a unit without output in the output folder, when merge_files returns the
\* output folder holds <name>.fastq.gz, whose decompressed content is the
\* concatenation of the decompressed fragments in the order of the unit's list, and
\* holds no <name>.fastq.
C8_MergedContent ==
    (/\ calls # <<>>
     /\ LastCall.outcome = "merged"
     /\ \A a \in DOMAIN LastCall.samples : LastCall.samples[a] \notin Damaged) =>
        LET files == outfolder[LastCall.run].files
            gz == <<LastCall.name, "fastq.gz">>
        IN /\ gz \in DOMAIN files
           /\ IsGzipped(files[gz])
           /\ Gunzip(files[gz]) = Concat(LastCall.samples)
           /\ <<LastCall.name, "fastq">> \notin DOMAIN files

\* merge_files has returned from the merge of a unit of two fragments
C8_Witness ==
    /\ calls # <<>>
    /\ LastCall.outcome = "merged"
    /\ pc = "unit"
    /\ Len(LastCall.samples) = 2

PermsOf(list) ==
    {p \in [DOMAIN list -> SeqToSet(list)] : \A i, j \in DOMAIN list : i # j => p[i] # p[j]}
KeyA_S1_R1(samples) ==
    \A i \in DOMAIN samples :
        /\ re_search_prefix(samples[i]) = "A"
        /\ SampleKeyOf(samples[i]) = "S1"
        /\ HasR1(samples[i])

\* the name merge_files gives the unit is the same for every order of the unit's list
C9_AnyOrder ==
    \A i \in DOMAIN calls :
        calls[i].outcome # "raised" =>
            \A p \in PermsOf(calls[i].samples) :
                merged_name(p, ss_info.samples).name = calls[i].name
\* the unit (A, S1, R1) is written to A_S1_R1.fastq.gz
C9_Example ==
    \A i \in DOMAIN calls :
        (calls[i].outcome # "raised" /\ KeyA_S1_R1(calls[i].samples)) =>
            calls[i].name = <<"A", "S1", "R1">>

\* C9: the output file name of a merge unit depends on the unit's key (experiment,
\* sample, read direction) only, not on the order of its fragments; the unit
\* (A, S1, R1) always gives A_S1_R1.fastq.gz.
C9_DeterministicName == C9_AnyOrder /\ C9_Example

MergedCalls == {i \in DOMAIN calls : calls[i].outcome = "merged"}
MergedNames(run) ==
    UNION {SeqToSet(calls[i].samples) : i \in {j \in MergedCalls : calls[j].run = run}}
Untouched(run, name) ==
    /\ Present(infolder[run], name)
    /\ Present(start.in[run], name)
    /\ EntryOf(infolder[run], name) = EntryOf(start.in[run], name)

\* the frame and the keep_original_files = true half of C10
C10_Kept ==
    \A r \in RunSet : \A i \in DOMAIN start.in[r] :
        (config_.keep_original_files \/ start.in[r][i].name \notin MergedNames(r)) =>
            Untouched(r, start.in[r][i].name)

RawName(samples) ==
    <<re_search_prefix(samples[1]), SampleKeyOf(samples[1]), re_search(ReadTokens, samples[1])>>

\* C11: when the run directory has no SampleSheet.csv, the run is merged all the same,
\* every unit's output is named by the raw sample key of its fragments, the run's
\* notification goes to the admin address, and nothing is raised that ends the run
\* or the pass.
C11_SheetFallback ==
    /\ \A i \in DOMAIN calls :
          (~sheets[calls[i].run].exists /\ calls[i].samples # <<>>) =>
              /\ calls[i].outcome # "raised"
              /\ calls[i].outcome \in {"merging", "merged"} =>
                    calls[i].name = RawName(calls[i].samples)
    /\ \A m \in DOMAIN sent :
          (~sheets[sent[m].run].exists /\ sent[m].subject = "finished") =>
              sent[m].to = config_.admin

\* the run is still being worked on by the pass
Processing(run) == pc # "idle" /\ idx <= Len(worklist) /\ worklist[idx] = run
FailedCalls(run) == {i \in CallsFor(run) : calls[i].outcome = "failed"}
Fragments(run) == SeqToSet(files_to_be_merged(start.in[run]))

\* C12: when merge_files fails for a unit of a run with an OSError or IOError, the
\* units of the run that remain are still handed to merge_files and update_completed
\* is still called for the run.
C12_UnitIsolation ==
    \A r \in RunSet :
        (FailedCalls(r) # {} /\ ~Processing(r)) =>
            /\ \A f \in Fragments(r) :
                  \E i \in CallsFor(r) : f \in SeqToSet(calls[i].samples)
            /\ r \in SeqToSet(dotCompleted.lines)

\* C13: whatever goes wrong with a run, a pass that is not terminated from outside
\* ends with "Merging script finished", after the main loop has reached every
\* writable run directory that was not completed.
C13_PassSurvives ==
    (pc = "idle" /\ exit_ \notin {"none", "killed"}) =>
        /\ exit_ = "finished"
        /\ \A r \in RunSet : verdict[r] # "writable"

IsPrefix(s, t) == Len(s) <= Len(t) /\ \A i \in DOMAIN s : s[i] = t[i]
C14_Durable ==
    /\ \A i, j \in DOMAIN dotCompleted.lines :
          i # j => dotCompleted.lines[i] # dotCompleted.lines[j]
    /\ \A r \in RunSet :
          (verdict[r] = "recorded" /\ ~Processing(r)) => r \in SeqToSet(dotCompleted.lines)
C14_Step ==
    /\ IsPrefix(dotCompleted.lines, dotCompleted'.lines)
    /\ Len(dotCompleted'.lines) <= Len(dotCompleted.lines) + 1
    /\ dotCompleted.exists => dotCompleted'.exists

\* C14: no step of the program removes or rewrites a line of .completed: a step leaves
\* the file as it is, creates it empty, or appends one run; no run is in it twice;
\* and a run that the pass recorded is in the file before the pass turns to the
\* next run.
C14_AppendOnly == [] C14_Durable /\ [][C14_Step]_vars

\* two runs were appended, one after the other, and the pass has finished
C14_Witness ==
    /\ dotCompleted.lines = <<"r1", "r2">>
    /\ verdict = [r \in RunSet |-> "recorded"]
    /\ exit_ = "finished"

\* C15: a run whose input folder does not exist is never taken for transferred: no pass
\* merges it or appends it to .completed.
C15_FailSafe ==
    \A r \in RunSet :
        broken[r] = "in" =>
            /\ verdict[r] \notin {"complete", "recorded"}
            /\ CallsFor(r) = {}
            /\ r \notin SeqToSet(dotCompleted.lines)

\* C16: every list that group_samples returns, and that main hands to merge_files, holds
\* at least one file; a sample with R1 fragments only gives one unit and no empty one.
C16_NoEmptyUnit ==
    (fnOut.stage = "grouped" /\ fnOut.groups.exc = None) =>
        \A k \in DOMAIN UnitsOf(fnOut.groups) : UnitsOf(fnOut.groups)[k] # <<>>

\* the merge_files calls in which gzip -dc has failed on a fragment
DecompressFailed ==
    {i \in DOMAIN calls :
        \E a \in DOMAIN calls[i].samples :
            /\ calls[i].samples[a] \in Damaged
            /\ \/ calls[i].outcome = "merged"
               \/ /\ calls[i].outcome = "merging"
                  /\ i = Len(calls)
                  /\ calls[i].samples[a] \notin SeqToSet(cur.todo)}

\* C17: when the decompression of a fragment has failed, the unit gets no compressed
\* output and none of its fragments is deleted.
C17_FailedUnitIntact ==
    \A i \in DecompressFailed :
        /\ <<calls[i].name, "fastq.gz">> \notin DOMAIN outfolder[calls[i].run].files
        /\ \A a \in DOMAIN calls[i].samples :
              /\ Present(infolder[calls[i].run], calls[i].samples[a])
              /\ <<calls[i].run, "in", calls[i].samples[a]>> \notin rmProcs

\* the reads in an output file: each is the name of the fragment it came from
Payload(content) == IF IsGzipped(content) THEN content.gz ELSE content.raw

\* C18: the fragments of a unit all have the same experiment name, and an output file
\* named after an experiment holds reads of that experiment only.
C18_ExperimentInKey ==
    /\ \A i \in DOMAIN calls : \A a, b \in DOMAIN calls[i].samples :
          re_search_prefix(calls[i].samples[a]) = re_search_prefix(calls[i].samples[b])
    /\ \A r \in RunSet : \A key \in DOMAIN outfolder[r].files :
          \A n \in DOMAIN Payload(outfolder[r].files[key]) :
              LET read == Payload(outfolder[r].files[key])[n]
              IN read # Torn => re_search_prefix(read) = key[1][1]

\* the address the run's own sample sheet gives, or the admin's
RecipientOf(run) ==
    LET named == {i \in DOMAIN sheets[run].lines : sheets[run].lines[i].investigator # None}
    IN IF config_.use_ss_email /\ sheets[run].exists /\ named # {}
       THEN sheets[run].lines[CHOOSE i \in named : TRUE].investigator
       ELSE config_.admin

\* the "Run finished merging." mail follows the run's update_completed
C19_Ordered ==
    \A m \in DOMAIN sent :
        sent[m].subject = "finished" => verdict[sent[m].run] = "recorded"
\* and goes to the recipient of the run it is about
C19_Addressed ==
    \A m \in DOMAIN sent :
        sent[m].subject = "finished" => sent[m].to = RecipientOf(sent[m].run)

\* C19: a "Run finished merging." mail is sent for a run only after update_completed was
\* called for it in this pass, never for a run whose transfer was incomplete or whose
\* processing raised an error, and it is addressed to the recipient resolved from
\* that run's own sample sheet (or the admin), never to one left from another run.
C19_FinishedMail == C19_Ordered /\ C19_Addressed

\* C20: in a pass every run directory is in exactly one class. Listed in .completed: no
\* notification, no merge, not in the work list. Not listed and not readable and
\* writable: one notification to the admin, no verification, no merge, not appended
\* to .completed. Not listed and readable and writable: in the work list.
C20_Classification ==
    \A r \in RunSet :
        verdict[r] # "none" =>
            IF r \in SeqToSet(completed)
            THEN /\ verdict[r] = "completed"
                 /\ MailsAbout(r) = {}
                 /\ CallsFor(r) = {}
                 /\ r \notin SeqToSet(worklist)
            ELSE IF ~perms[r]
            THEN /\ verdict[r] = "unwritable"
                 /\ Cardinality(MailsAbout(r)) = 1
                 /\ \A m \in MailsAbout(r) :
                       sent[m] = Mail("unwritable", config_.admin, r, <<>>)
                 /\ CallsFor(r) = {}
                 /\ r \notin SeqToSet(worklist)
                 /\ r \notin SeqToSet(dotCompleted.lines)
            ELSE /\ verdict[r] \in {"writable", "complete", "incomplete", "recorded", "failed"}
                 /\ Cardinality({i \in DOMAIN worklist : worklist[i] = r}) = 1

\* a pass has finished over one completed run and one unwritable run
C20_Witness ==
    /\ verdict = [r \in RunSet |-> IF r = "r1" THEN "completed" ELSE "unwritable"]
    /\ exit_ = "finished"
    /\ ~perms["r2"]
    /\ origin["r1"] # <<>>

(***************************************************************************)
(* The claim about a run without fragments.                                *)
(***************************************************************************)
Occurrences(list, x) == Cardinality({i \in DOMAIN list : list[i] = x})

\* C21: a writable run that is not completed, whose transfer is verified and whose input
\* folder holds no *.gz file, is grouped into no unit: merge_files is not called for
\* it, nothing is raised while the pass works on it, and the pass appends it to
\* .completed exactly once.
C21_EmptyRun ==
    \A r \in RunSet :
        (files_to_be_merged(start.in[r]) = <<>> /\ verdict[r] \in {"complete", "recorded"}) =>
            /\ CallsFor(r) = {}
            /\ ~(exit_ = "exception" /\ idx <= Len(worklist) /\ worklist[idx] = r)
            /\ verdict[r] = "complete" =>
                  /\ units = <<>>
                  /\ pc = "unit" \/ exit_ = "killed"
                  /\ Occurrences(dotCompleted.lines, r) = 0
            /\ verdict[r] = "recorded" =>
                  /\ Occurrences(dotCompleted.lines, r) = 1
                  /\ r \notin SeqToSet(completed)

\* the pass has recorded a run whose input folder holds md5sums.txt and nothing else,
\* and has gone on to the next run
C21_Witness ==
    /\ origin["r1"] = <<md5sums_txt>>
    /\ config_.use_md5
    /\ verdict["r1"] = "recorded"
    /\ Occurrences(dotCompleted.lines, "r1") = 1
    /\ pc = "run"
    /\ idx = 2

(***************************************************************************)
(* The configuration file: check_config, and the keys main reads from the  *)
(* configuration while it works on a run whose transfer is verified.       *)
(***************************************************************************)
Sections == {"email", "runs", "logging", "verify_transfer"}
KeysOf(section) ==
    CASE section = "email" -> {"admin", "parse_ss", "use_ss_email"}
      [] section = "runs" -> {"in_folder", "out_folder", "keep_original_files", "runs_folder"}
      [] section = "logging" -> {"log_file"}
      [] section = "verify_transfer" -> {"use_md5", "md5_path"}

\* what yaml.load gives for a section: no such key, None for a blank section, or a dict
SectionValues(section) ==
    {[present |-> FALSE, blank |-> FALSE, keys |-> {}],
     [present |-> TRUE, blank |-> TRUE, keys |-> {}]}
    \cup {[present |-> TRUE, blank |-> FALSE, keys |-> K] : K \in SUBSET KeysOf(section)}

KeyError(what) == [exc |-> "KeyError", what |-> what]
Accepted == [exc |-> None, what |-> None]

\* check_config: the first KeyError it raises, if any
check_config(cfg) ==
    LET email ==
            IF ~cfg.email.present THEN KeyError("email")
            ELSE IF cfg.email.blank THEN KeyError("email blank")
            ELSE IF "admin" \notin cfg.email.keys THEN KeyError("admin")
            ELSE IF "parse_ss" \notin cfg.email.keys THEN KeyError("parse_ss")
            ELSE Accepted
        runs ==
            IF ~cfg.runs.present THEN KeyError("runs")
            ELSE IF cfg.runs.blank THEN KeyError("runs blank")
            ELSE IF "in_folder" \notin cfg.runs.keys THEN KeyError("in_folder")
            ELSE IF "out_folder" \notin cfg.runs.keys THEN KeyError("out_folder")
            ELSE IF "keep_original_files" \notin cfg.runs.keys
                 THEN KeyError("keep_original_files")
            ELSE IF "runs_folder" \notin cfg.runs.keys THEN KeyError("runs_folder")
            ELSE Accepted
        logging ==
            IF ~cfg.logging.present THEN KeyError("logging")
            ELSE IF cfg.logging.blank THEN KeyError("logging blank")
            ELSE IF "log_file" \notin cfg.logging.keys THEN KeyError("log_file")
            ELSE Accepted
        verify_transfer ==
            IF ~cfg.verify_transfer.present THEN KeyError("verify_transfer")
            ELSE IF cfg.verify_transfer.blank THEN KeyError("verify_transfer blank")
            ELSE IF "use_md5" \notin cfg.verify_transfer.keys THEN KeyError("use_md5")
            ELSE IF "md5_path" \notin cfg.verify_transfer.keys THEN KeyError("md5_path")
            ELSE Accepted
    IN IF email.exc # None THEN email
       ELSE IF runs.exc # None THEN runs
       ELSE IF logging.exc # None THEN logging
       ELSE verify_transfer

\* config_[section][key]
Subscript(cfg, key) ==
    IF ~cfg[key[1]].present THEN "KeyError"
    ELSE IF cfg[key[1]].blank THEN "TypeError"
    ELSE IF key[2] \notin cfg[key[1]].keys THEN "KeyError"
    ELSE None

\* the subscripts main evaluates, in the order of lines 284-356, for a run with one unit
MainReads(use_md5) ==
    << <<"logging", "log_file">>, <<"runs", "runs_folder">>, <<"verify_transfer", "use_md5">>,
       <<"runs", "in_folder">> >>
    \o (IF use_md5 THEN << <<"verify_transfer", "md5_path">> >> ELSE <<>>)
    \o << <<"runs", "in_folder">>, <<"email", "admin">>, <<"email", "use_ss_email">>,
          <<"runs", "keep_original_files">>, <<"email", "admin">>, <<"runs", "in_folder">>,
          <<"runs", "out_folder">> >>

InitConfig ==
    /\ FrozenPass
    /\ clock = 2 * Threshold
    /\ \E e \in SectionValues("email"), r \in SectionValues("runs"),
          l \in SectionValues("logging"), v \in SectionValues("verify_transfer") :
          \E md5 \in (IF "use_md5" \in v.keys THEN BOOLEAN ELSE {FALSE}) :
             fnIn = [email |-> e, runs |-> r, logging |-> l, verify_transfer |-> v,
                     use_md5 |-> md5]
    /\ fnOut = [stage |-> "start", reads |-> <<>>, exc |-> None]

\* main, lines 278-282: a KeyError of check_config ends the process with sys.exit(1)
LoadConfig ==
    /\ fnOut.stage = "start"
    /\ fnOut' = IF check_config(fnIn).exc # None
                THEN [stage |-> "exit", reads |-> <<>>, exc |-> None]
                ELSE [stage |-> "main", reads |-> <<>>, exc |-> None]
    /\ UNCHANGED <<EnvVars, infolder, outfolder, dotCompleted, rmProcs, pc, exit_, PassVars,
                   recorded, killedIn, arrivals, kills, fnIn>>

\* main, lines 284-356: the next subscript of config_; no handler of main catches what
\* a missing key raises
ReadConfig ==
    /\ fnOut.stage = "main"
    /\ fnOut.exc = None
    /\ Len(fnOut.reads) < Len(MainReads(fnIn.use_md5))
    /\ LET key == MainReads(fnIn.use_md5)[Len(fnOut.reads) + 1]
       IN fnOut' = [stage |-> "main", reads |-> Append(fnOut.reads, key),
                    exc |-> Subscript(fnIn, key)]
    /\ UNCHANGED <<EnvVars, infolder, outfolder, dotCompleted, rmProcs, pc, exit_, PassVars,
                   recorded, killedIn, arrivals, kills, fnIn>>

NextConfig == LoadConfig \/ ReadConfig

SpecConfig == InitConfig /\ [][NextConfig]_vars

\* C22: a configuration that check_config rejects ends the pass before main reads
\* anything else, and a configuration that check_config accepts holds every key main
\* reads: after validation no subscript of config_ raises.
C22_ValidationSufficient ==
    /\ fnOut.stage = "exit" => (check_config(fnIn).exc = "KeyError" /\ fnOut.reads = <<>>)
    /\ fnOut.stage = "main" => (check_config(fnIn).exc = None /\ fnOut.exc = None)

====
